---------------------------- MODULE Spec2Model ----------------------------
(***************************************************************************)
(* State-machine model of sig_chain_poc: the token ledger                  *)
(* (token/pkg/hyperledger/main.go), the Node-based graph engine            *)
(* (unnamed/part_002) with its typed and material contracts                *)
(* (chaincode/asset/asset.go), and the NodeHeader-based graph engine       *)
(* (unnamed/part_001) with its material contract (main.go).  Every         *)
(* chaincode call is one action: it reads the world state, computes, and   *)
(* writes, exactly as the handler does.                                    *)
(*                                                                         *)
(* SHA-512 is modelled symbolically and injectively: a digest is a record  *)
(* naming the hashed input.  RSA signatures are modelled symbolically: the *)
(* signature of message m under the private key of public key k is the     *)
(* record [signer |-> k, msg |-> m], and it verifies under k' over m' iff  *)
(* k = k' and m = m'.                                                      *)
(***************************************************************************)
EXTENDS Integers, Sequences, FiniteSets, TLC

VARIABLES
    engine,        \* which chaincode this world state belongs to
    store,         \* world state: key -> stored (decoded JSON) record
    last,          \* the last call: operation, arguments, returned error kind
    everConsumed,  \* history: ids x for which some ConsumeToken(x, _) returned nil
    calls,         \* number of calls made so far that count against a bound
    everTransferredTo  \* history: new ids of TransferNodeOwnership calls that returned nil

vars == <<engine, store, last, everConsumed, calls, everTransferredTo>>

(***************************************************************************)
(* Bounds of the model.                                                    *)
(***************************************************************************)
\* ConsumeToken is not explored once the consuming token lists this many ids.
MaxConsumed == 3
\* Graph-engine behaviours are explored up to this many calls.
MaxCalls == 3
\* Token-ledger behaviours on a failing stub are explored up to this many
\* ConsumeToken calls in which a PutState fails.
MaxFailedCalls == 1

(***************************************************************************)
(* Hashing substrate.                                                      *)
(***************************************************************************)
\* sha512.Sum512([]byte(x)): the 64 digest bytes of x, as a Go string.  The
\* bytes are not valid UTF-8 (utf8 = FALSE) until JSON encoding coerces them.
Sum512(x) == [form |-> "sha512", of |-> x, utf8 |-> FALSE]

\* hasher := sha512.New(); string(hasher.Sum([]byte(x))): Sum appends the
\* digest of what was written to the hasher (nothing) to its argument, so the
\* result is the raw bytes of x followed by the digest of the empty input.
HasherSum(x) == [form |-> "rawIdThenEmptyDigest", of |-> x, utf8 |-> FALSE]

\* encoding/json writes a string with its invalid UTF-8 bytes replaced by
\* U+FFFD; a string that was already coerced is unchanged.
JsonCoerce(b) == [b EXCEPT !.utf8 = TRUE]

\* hex.EncodeToString(digest): lowercase hex, a valid UTF-8 string.
HexEncode(b) == "hex(" \o b.form \o "(" \o b.of \o "))"

\* The token id of a seed: hex.EncodeToString(sha512.Sum512([]byte(seed))).
TokenIdOfSeed(seed) == HexEncode(Sum512(seed))

(***************************************************************************)
(* World state (the chaincode stub).                                       *)
(***************************************************************************)
\* GetState(key) returns nil, nil for an absent key.
Exists(s, key) == key \in DOMAIN s

\* PutState(key, value): insert or overwrite.
PutState(s, key, value) ==
    [k \in (DOMAIN s) \cup {key} |-> IF k = key THEN value ELSE s[k]]

EmptyStore == <<>>

\* What a call observes of one stub access: the key, and whether the key held
\* a value at that moment.
GetStateEvent(s, key) == [op |-> "GetState", key |-> key, found |-> Exists(s, key)]
PutStateEvent(s, key) == [op |-> "PutState", key |-> key, found |-> Exists(s, key)]

(***************************************************************************)
(* Token ledger: token/pkg/hyperledger/main.go                             *)
(***************************************************************************)
AlwaysAcceptUrl == "sc://always-accept"
AlwaysSendUrl == "sc://always-send"

Seeds == {"seed", "seed-2"}
AcceptUrls == {"", AlwaysAcceptUrl}
SendUrls == {"", AlwaysSendUrl}
TokenOwnerKeys == {"publickey", "publickey-2"}
\* ids a caller may pass to ConsumeToken: every derivable id and the empty string
TokenIdInputs == {TokenIdOfSeed(s) : s \in Seeds} \cup {""}

\* The Token literal of CreateToken.
NewToken_SwappedUrls(tokenId, requestToAcceptUrl, requestToSendUrl, ownerPublicKey) ==
    [Id                 |-> tokenId,
     ConsumingTokenId   |-> "",
     ConsumedTokenIds   |-> <<>>,
     RequestToAcceptUrl |-> requestToSendUrl,
     RequestToSendUrl   |-> requestToAcceptUrl,
     OwnerPublicKey     |-> ownerPublicKey]
NewToken(tokenId, requestToAcceptUrl, requestToSendUrl, ownerPublicKey) ==
    [Id                 |-> tokenId,
     ConsumingTokenId   |-> "",
     ConsumedTokenIds   |-> <<>>,
     RequestToAcceptUrl |-> requestToAcceptUrl,
     RequestToSendUrl   |-> requestToSendUrl,
     OwnerPublicKey     |-> ownerPublicKey]

\* DoesTokenExist
DoesTokenExist_Never(s, tokenId) == FALSE
DoesTokenExist(s, tokenId) == Exists(s, tokenId)

\* GetToken: the decoded record, or NotFound for an absent key.
GetToken(s, tokenId) ==
    IF Exists(s, tokenId)
    THEN [result |-> "ok", token |-> s[tokenId]]
    ELSE [result |-> "NotFound"]

\* CreateToken: the store and error kind it returns.
CreateTokenCall(s, seed, requestToAcceptUrl, requestToSendUrl, ownerPublicKey) ==
    LET tokenId == TokenIdOfSeed(seed) IN
    IF DoesTokenExist(s, tokenId)
    THEN [store |-> s, result |-> "AlreadyExists"]
    ELSE [store  |-> PutState(s, tokenId,
                        NewToken(tokenId, requestToAcceptUrl, requestToSendUrl,
                                 ownerPublicKey)),
          result |-> "ok"]

\* ConsumeToken line 69: the to-be-consumed token is already consumed.
IsAlreadyConsumed_Never(token) == FALSE
IsAlreadyConsumed(token) == token.ConsumingTokenId # ""

\* ConsumeToken line 90: the policy-endpoint guard of the mutation.
EndpointsPresent_SendOnly(consumedToken, consumingToken) ==
    consumedToken.RequestToSendUrl # ""
EndpointsPresent(consumedToken, consumingToken) ==
    consumedToken.RequestToSendUrl # "" /\ consumingToken.RequestToAcceptUrl # ""

\* ConsumeToken lines 92-93 and 107-108: both records are separate decoded
\* copies; the consumed record is written first, the consuming record second.
ConsumeWrites_RebuildConsuming(s, consumedTokenId, consumingTokenId) ==
    LET consumedToken  == [s[consumedTokenId] EXCEPT
                              !.ConsumingTokenId = consumingTokenId]
        old            == s[consumingTokenId]
        consumingToken == [NewToken(old.Id, old.RequestToAcceptUrl,
                                    old.RequestToSendUrl, old.OwnerPublicKey)
                              EXCEPT !.ConsumedTokenIds =
                                         Append(old.ConsumedTokenIds, consumedTokenId)]
    IN PutState(PutState(s, consumedTokenId, consumedToken),
                consumingTokenId, consumingToken)
ConsumeWrites_PrependConsumed(s, consumedTokenId, consumingTokenId) ==
    LET consumedToken  == [s[consumedTokenId] EXCEPT
                              !.ConsumingTokenId = consumingTokenId]
        consumingToken == [s[consumingTokenId] EXCEPT
                              !.ConsumedTokenIds = <<consumedTokenId>> \o @]
    IN PutState(PutState(s, consumedTokenId, consumedToken),
                consumingTokenId, consumingToken)
ConsumeWrites(s, consumedTokenId, consumingTokenId) ==
    LET consumedToken  == [s[consumedTokenId] EXCEPT
                              !.ConsumingTokenId = consumingTokenId]
        consumingToken == [s[consumingTokenId] EXCEPT
                              !.ConsumedTokenIds = Append(@, consumedTokenId)]
    IN PutState(PutState(s, consumedTokenId, consumedToken),
                consumingTokenId, consumingToken)

\* ConsumeToken: the store and error kind it returns.
ConsumeTokenCall(s, consumedTokenId, consumingTokenId) ==
    IF ~Exists(s, consumedTokenId)
    THEN [store |-> s, result |-> "NotFound"]
    ELSE IF IsAlreadyConsumed(s[consumedTokenId])
    THEN [store |-> s, result |-> "AlreadyConsumed"]
    ELSE IF ~Exists(s, consumingTokenId)
    THEN [store |-> s, result |-> "NotFound"]
    ELSE IF EndpointsPresent(s[consumedTokenId], s[consumingTokenId])
    THEN [store  |-> ConsumeWrites(s, consumedTokenId, consumingTokenId),
          result |-> "ok"]
    ELSE [store |-> s, result |-> "ok"]

NoCall == [op |-> "none", result |-> "ok"]

InitToken ==
    /\ engine = "token"
    /\ store = EmptyStore
    /\ last = NoCall
    /\ everConsumed = {}
    /\ calls = 0
    /\ everTransferredTo = {}

CreateToken ==
    \E seed \in Seeds, acc \in AcceptUrls, snd \in SendUrls, key \in TokenOwnerKeys :
        LET r == CreateTokenCall(store, seed, acc, snd, key) IN
        /\ engine = "token"
        /\ store' = r.store
        /\ last' = [op |-> "CreateToken", result |-> r.result, seed |-> seed,
                    requestToAcceptUrl |-> acc, requestToSendUrl |-> snd,
                    ownerPublicKey |-> key]
        /\ UNCHANGED <<engine, everConsumed, calls, everTransferredTo>>

ConsumeToken ==
    \E consumedTokenId \in TokenIdInputs, consumingTokenId \in TokenIdInputs :
        LET r == ConsumeTokenCall(store, consumedTokenId, consumingTokenId) IN
        /\ engine = "token"
        /\ Exists(store, consumingTokenId) =>
              Len(store[consumingTokenId].ConsumedTokenIds) < MaxConsumed
        /\ store' = r.store
        /\ last' = [op |-> "ConsumeToken", result |-> r.result,
                    consumedTokenId |-> consumedTokenId,
                    consumingTokenId |-> consumingTokenId,
                    consumedBefore |-> consumedTokenId \in everConsumed]
        /\ everConsumed' = IF r.result = "ok"
                           THEN everConsumed \cup {consumedTokenId}
                           ELSE everConsumed
        /\ UNCHANGED <<engine, calls, everTransferredTo>>

NextToken == CreateToken \/ ConsumeToken

SpecToken == InitToken /\ [][NextToken]_vars

\* ConsumeToken lines 92-108 on a stub whose PutState can return an error:
\* failed holds 1 when the PutState of line 107 fails and 2 when the one of
\* line 108 fails.  A failed PutState records nothing; neither returned error
\* is looked at, so the second write is attempted whatever the first did.
ConsumeWritesOnFailingStub(s, consumedTokenId, consumingTokenId, failed) ==
    LET consumedToken  == [s[consumedTokenId] EXCEPT
                              !.ConsumingTokenId = consumingTokenId]
        consumingToken == [s[consumingTokenId] EXCEPT
                              !.ConsumedTokenIds = Append(@, consumedTokenId)]
        s1             == IF 1 \in failed THEN s
                          ELSE PutState(s, consumedTokenId, consumedToken)
    IN IF 2 \in failed THEN s1
       ELSE PutState(s1, consumingTokenId, consumingToken)

\* ConsumeToken on such a stub: line 111 returns nil after the two PutState
\* calls, whatever they returned.
ConsumeTokenOnFailingStubCall(s, consumedTokenId, consumingTokenId, failed) ==
    IF ~Exists(s, consumedTokenId)
    THEN [store |-> s, result |-> "NotFound"]
    ELSE IF IsAlreadyConsumed(s[consumedTokenId])
    THEN [store |-> s, result |-> "AlreadyConsumed"]
    ELSE IF ~Exists(s, consumingTokenId)
    THEN [store |-> s, result |-> "NotFound"]
    ELSE IF EndpointsPresent(s[consumedTokenId], s[consumingTokenId])
    THEN [store  |-> ConsumeWritesOnFailingStub(s, consumedTokenId,
                                                consumingTokenId, failed),
          result |-> "ok"]
    ELSE [store |-> s, result |-> "ok"]

\* A ConsumeToken call that reaches its PutState calls, each of which may
\* fail.
ConsumeTokenOnFailingStub ==
    \E consumedTokenId \in TokenIdInputs, consumingTokenId \in TokenIdInputs,
       failed \in SUBSET {1, 2} :
        LET r == ConsumeTokenOnFailingStubCall(store, consumedTokenId,
                                               consumingTokenId, failed)
        IN /\ engine = "token"
           /\ Exists(store, consumedTokenId) /\ Exists(store, consumingTokenId)
           /\ ~IsAlreadyConsumed(store[consumedTokenId])
           /\ EndpointsPresent(store[consumedTokenId], store[consumingTokenId])
           /\ Len(store[consumingTokenId].ConsumedTokenIds) < MaxConsumed
           /\ failed # {} => calls < MaxFailedCalls
           /\ store' = r.store
           /\ last' = [op |-> "ConsumeToken", result |-> r.result,
                       consumedTokenId |-> consumedTokenId,
                       consumingTokenId |-> consumingTokenId,
                       consumedBefore |-> consumedTokenId \in everConsumed,
                       failedPuts |-> failed]
           /\ everConsumed' = IF r.result = "ok"
                              THEN everConsumed \cup {consumedTokenId}
                              ELSE everConsumed
           /\ calls' = IF failed # {} THEN calls + 1 ELSE calls
           /\ UNCHANGED <<engine, everTransferredTo>>

NextTokenOnFailingStub == CreateToken \/ ConsumeTokenOnFailingStub

\* The token ledger on a stub whose writes can fail.
SpecTokenOnFailingStub == InitToken /\ [][NextTokenOnFailingStub]_vars


(***************************************************************************)
(* Signing substrate, shared by both graph engines.                        *)
(***************************************************************************)
\* Public keys in a well-formed encoding, and one string that is no key.
ValidKeys == {"K1", "K2"}
OwnerKeyInputs == ValidKeys \cup {"notakey"}
\* Private keys a caller may sign with: a signer is named by its public key.
Signers == ValidKeys
NodeIds == {"n1", "n2", "n3"}
Payloads == {"p1", "p2"}
\* Payloads given to CreateNode.
NewPayloads == {"p1"}

\* The raw PKCS#1 v1.5 signature of message msg under the private key of
\* public key k.
Sign(k, msg) == [signer |-> k, msg |-> msg]

\* rsa.VerifyPKCS1v15(key, crypto.SHA512, sha512(msg), sig) = nil
RsaVerify(key, msg, sig) == sig = Sign(key, msg)

(***************************************************************************)
(* Node-based graph engine: unnamed/part_002                               *)
(***************************************************************************)
\* json.Marshal(node): the link maps are written with their keys coerced to
\* valid UTF-8.  The payloads explored are JSON strings, which decode to the
\* same Go string.
MarshalNode(n) ==
    [Id                    |-> n.Id,
     IsFinalized           |-> n.IsFinalized,
     Data                  |-> n.Data,
     NextNodeHashedIds     |-> {JsonCoerce(e) : e \in n.NextNodeHashedIds},
     PreviousNodeHashedIds |-> {JsonCoerce(e) : e \in n.PreviousNodeHashedIds},
     OwnerPublicKey        |-> n.OwnerPublicKey]

\* GetNode of a present key: json.Unmarshal of the stored document.
GetNode(s, iNodeId) == s[iNodeId]

\* DoesNodeExists
DoesNodeExists_Never(s, iNodeId) == FALSE
DoesNodeExists(s, iNodeId) == Exists(s, iNodeId)

\* x509.ParsePKIXPublicKey([]byte(key)) returns an *rsa.PublicKey.
ParsePKIXPublicKeyOk(key) == key \in ValidKeys

\* Node.verifyWithPublicKey: the error kind ("ok" for nil).
VerifyWithPublicKey(n, iSignature, iPublicKey) ==
    IF ~ParsePKIXPublicKeyOk(iPublicKey) THEN "InvalidKeyFormat"
    ELSE IF RsaVerify(iPublicKey, MarshalNode(n), iSignature) THEN "ok"
    ELSE "VerificationFailure"

\* Node.Verify: against the node's own OwnerPublicKey.
NodeVerify(n, iSignature) == VerifyWithPublicKey(n, iSignature, n.OwnerPublicKey)

\* One signature verification a call makes: the id of the verified node and
\* whether Verify returned nil.
VerifyEvent(n, v) == [op |-> "Verify", key |-> n.Id, found |-> v = "ok"]

\* The Node literal of CreateNode.
NewNode_Finalized(iNodeId, iData, iOwnerPublicKey) ==
    [Id                    |-> iNodeId,
     IsFinalized           |-> TRUE,
     Data                  |-> iData,
     NextNodeHashedIds     |-> {},
     PreviousNodeHashedIds |-> {},
     OwnerPublicKey        |-> iOwnerPublicKey]
NewNode(iNodeId, iData, iOwnerPublicKey) ==
    [Id                    |-> iNodeId,
     IsFinalized           |-> FALSE,
     Data                  |-> iData,
     NextNodeHashedIds     |-> {},
     PreviousNodeHashedIds |-> {},
     OwnerPublicKey        |-> iOwnerPublicKey]

\* CreateNode
CreateNodeCall(s, iNodeId, iData, iOwnerPublicKey, iSignature) ==
    IF DoesNodeExists(s, iNodeId)
    THEN [store |-> s, result |-> "AlreadyExists"]
    ELSE IF ~ParsePKIXPublicKeyOk(iOwnerPublicKey)
    THEN [store |-> s, result |-> "InvalidKeyFormat"]
    ELSE LET newNode == NewNode(iNodeId, iData, iOwnerPublicKey)
             v       == NodeVerify(newNode, iSignature)
         IN IF v # "ok"
            THEN [store |-> s, result |-> v]
            ELSE [store |-> PutState(s, iNodeId, MarshalNode(newNode)),
                  result |-> "ok"]

\* FinalizeNode lines 122-136: the loaded node with IsFinalized set.  There is
\* no test of the loaded node's IsFinalized.
FinalizedNode_Unchanged(s, iNodeId) == GetNode(s, iNodeId)
FinalizedNode(s, iNodeId) == [GetNode(s, iNodeId) EXCEPT !.IsFinalized = TRUE]

\* FinalizeNode
FinalizeNodeCall_WriteBeforeVerify(s, iNodeId, iSignature) ==
    IF ~Exists(s, iNodeId)
    THEN [store |-> s, result |-> "NotFound"]
    ELSE LET thisNode == FinalizedNode(s, iNodeId)
         IN [store  |-> PutState(s, iNodeId, MarshalNode(thisNode)),
             result |-> NodeVerify(thisNode, iSignature)]
FinalizeNodeCall(s, iNodeId, iSignature) ==
    IF ~Exists(s, iNodeId)
    THEN [store |-> s, result |-> "NotFound"]
    ELSE LET thisNode == FinalizedNode(s, iNodeId)
             v        == NodeVerify(thisNode, iSignature)
         IN IF v # "ok"
            THEN [store |-> s, result |-> v]
            ELSE [store |-> PutState(s, iNodeId, MarshalNode(thisNode)),
                  result |-> "ok"]

\* UpdateNode: the caller's node replaces the stored one, under the stored
\* node's Id, when the signature verifies under the stored owner key.
UpdateNodeCall(s, iNode, iSignature) ==
    IF ~Exists(s, iNode.Id)
    THEN [store |-> s, result |-> "NotFound"]
    ELSE LET oldNode == GetNode(s, iNode.Id)
             v       == VerifyWithPublicKey(iNode, iSignature, oldNode.OwnerPublicKey)
         IN IF v # "ok"
            THEN [store |-> s, result |-> v]
            ELSE [store |-> PutState(s, oldNode.Id, MarshalNode(iNode)),
                  result |-> "ok"]

\* CreateEdge lines 215-217: the two loaded nodes (separate copies, also when
\* both ids are equal) with the link entries added.
EdgeThisNode(s, iNodeId, iNextNodeId) ==
    [GetNode(s, iNodeId) EXCEPT
        !.NextNodeHashedIds = @ \cup {HasherSum(iNextNodeId)}]
EdgeNextNode(s, iNodeId, iNextNodeId) ==
    [GetNode(s, iNextNodeId) EXCEPT
        !.PreviousNodeHashedIds = @ \cup {HasherSum(iNodeId)}]

\* CreateEdge: no test of either node's IsFinalized.  Each call result also
\* carries the stub accesses and verifications the call made, in order.
CreateEdgeCall(s, iNodeId, iNextNodeId, iSignature, iNextNodeSignature) ==
    LET g1 == <<GetStateEvent(s, iNodeId)>>
        g2 == g1 \o <<GetStateEvent(s, iNextNodeId)>>
    IN
    IF ~Exists(s, iNodeId)
    THEN [store |-> s, result |-> "NotFound", trace |-> g1]
    ELSE IF ~Exists(s, iNextNodeId)
    THEN [store |-> s, result |-> "NotFound", trace |-> g2]
    ELSE LET thisNode == EdgeThisNode(s, iNodeId, iNextNodeId)
             nextNode == EdgeNextNode(s, iNodeId, iNextNodeId)
             v1       == NodeVerify(thisNode, iSignature)
             v2       == NodeVerify(nextNode, iNextNodeSignature)
             e1       == g2 \o <<VerifyEvent(thisNode, v1)>>
             e2       == e1 \o <<VerifyEvent(nextNode, v2)>>
             s1       == PutState(s, iNodeId, MarshalNode(thisNode))
         IN IF v1 # "ok" THEN [store |-> s, result |-> v1, trace |-> e1]
            ELSE IF v2 # "ok" THEN [store |-> s, result |-> v2, trace |-> e2]
            ELSE [store  |-> PutState(s1, iNextNodeId, MarshalNode(nextNode)),
                  result |-> "ok",
                  trace  |-> e2 \o <<PutStateEvent(s, iNodeId),
                                     PutStateEvent(s1, iNextNodeId)>>]

\* CreateReferencedNodesAndFinalize lines 280-284: the parent with the digest
\* of every new id added to its next links, finalized.
BranchParent(s, iNodeId, iNewNodeIds) ==
    [GetNode(s, iNodeId) EXCEPT
        !.NextNodeHashedIds =
            @ \cup {Sum512(iNewNodeIds[i]) : i \in 1..Len(iNewNodeIds)},
        !.IsFinalized = TRUE]

\* CreateReferencedNodesAndFinalize line 309: the child literal.
BranchChild_NoParentLink(parentId, iNewNodeId, iData, iOwnerPublicKey) ==
    [Id                    |-> iNewNodeId,
     IsFinalized           |-> FALSE,
     Data                  |-> iData,
     NextNodeHashedIds     |-> {},
     PreviousNodeHashedIds |-> {},
     OwnerPublicKey        |-> iOwnerPublicKey]
BranchChild(parentId, iNewNodeId, iData, iOwnerPublicKey) ==
    [Id                    |-> iNewNodeId,
     IsFinalized           |-> FALSE,
     Data                  |-> iData,
     NextNodeHashedIds     |-> {},
     PreviousNodeHashedIds |-> {Sum512(parentId)},
     OwnerPublicKey        |-> iOwnerPublicKey]

\* CreateReferencedNodesAndFinalize lines 299-327: the children are written
\* in order; the loop returns at the first id that is already stored, leaving
\* the earlier writes in place.
RECURSIVE BranchChildren(_, _, _, _, _, _, _)
BranchChildren(s, parentId, iNewNodeIds, iData, iOwnerPublicKey, i, trace) ==
    IF i > Len(iData)
    THEN [store |-> s, result |-> "ok", trace |-> trace]
    ELSE IF DoesNodeExists(s, iNewNodeIds[i])
    THEN [store |-> s, result |-> "AlreadyExists",
          trace |-> trace \o <<GetStateEvent(s, iNewNodeIds[i])>>]
    ELSE BranchChildren(
             PutState(s, iNewNodeIds[i],
                      MarshalNode(BranchChild(parentId, iNewNodeIds[i], iData[i],
                                              iOwnerPublicKey[i]))),
             parentId, iNewNodeIds, iData, iOwnerPublicKey, i + 1,
             trace \o <<GetStateEvent(s, iNewNodeIds[i]),
                        PutStateEvent(s, iNewNodeIds[i])>>)

\* CreateReferencedNodesAndFinalize
CreateReferencedNodesAndFinalizeCall(s, iNodeId, iNewNodeIds, iData, iOwnerPublicKey, iSignature) ==
    LET g == <<GetStateEvent(s, iNodeId)>> IN
    IF ~Exists(s, iNodeId)
    THEN [store |-> s, result |-> "NotFound", trace |-> g]
    ELSE IF Len(iNewNodeIds) # Len(iData) \/ Len(iData) # Len(iOwnerPublicKey)
    THEN [store |-> s, result |-> "ArityMismatch", trace |-> g]
    ELSE IF GetNode(s, iNodeId).IsFinalized
    THEN [store |-> s, result |-> "AlreadyFinalized", trace |-> g]
    ELSE LET node == BranchParent(s, iNodeId, iNewNodeIds)
             v    == NodeVerify(node, iSignature)
             e    == g \o <<VerifyEvent(node, v)>>
         IN IF v # "ok"
            THEN [store |-> s, result |-> v, trace |-> e]
            ELSE BranchChildren(PutState(s, node.Id, MarshalNode(node)),
                                node.Id, iNewNodeIds, iData, iOwnerPublicKey, 1,
                                e \o <<PutStateEvent(s, node.Id)>>)

\* TransferNodeOwnership lines 418-426: newNode and oldNode are the same
\* pointer, so every assignment lands on one record.
TransferNode(s, iNodeId, iNewNodeId, iNewOwnerPublicKey) ==
    [GetNode(s, iNodeId) EXCEPT
        !.OwnerPublicKey = iNewOwnerPublicKey,
        !.NextNodeHashedIds = @ \cup {HasherSum(iNewNodeId)},
        !.IsFinalized = TRUE,
        !.PreviousNodeHashedIds = @ \cup {HasherSum(iNodeId)}]

\* TransferNodeOwnership: both verifications take iSignature; there is no
\* PutState, so no call changes the store.
TransferNodeOwnershipCall(s, iNodeId, iNewNodeId, iNewOwnerPublicKey, iSignature, iNewNodeSignature) ==
    LET g1 == <<GetStateEvent(s, iNodeId)>>
        g2 == g1 \o <<GetStateEvent(s, iNewNodeId)>>
    IN
    IF ~Exists(s, iNodeId)
    THEN [store |-> s, result |-> "NotFound", trace |-> g1]
    ELSE IF DoesNodeExists(s, iNewNodeId)
    THEN [store |-> s, result |-> "AlreadyExists", trace |-> g2]
    ELSE LET node == TransferNode(s, iNodeId, iNewNodeId, iNewOwnerPublicKey)
             v    == NodeVerify(node, iSignature)
             e1   == g2 \o <<VerifyEvent(node, v)>>
         IN [store  |-> s, result |-> v,
             trace  |-> IF v # "ok" THEN e1 ELSE e1 \o <<VerifyEvent(node, v)>>]

(***************************************************************************)
(* Typed wrappers of the Node-based engine: chaincode/asset/asset.go.      *)
(* A payload is kept as the JSON text it is stored as.                     *)
(***************************************************************************)
eMaterial == "eMaterial"
eData == "eData"

\* The TypedNode literal, as its JSON text.
TypedNode(iType, iData) == "{Type:" \o iType \o ",Data:" \o iData \o "}"

\* The Material literal, as its JSON text.
Material(iName, iUnit, iQuantity) ==
    "{Name:" \o iName \o ",Unit:" \o iUnit \o ",Quantity:" \o ToString(iQuantity) \o "}"

\* CreateReferencedTypedNodesAndFinalize lines 77-84: the typed payloads.
TypedNodes(iType, iData) == [i \in 1..Len(iData) |-> TypedNode(iType[i], iData[i])]

\* CreateReferencedTypedNodesAndFinalize
CreateReferencedTypedNodesAndFinalizeCall(s, iNodeId, iNewNodeIds, iType, iData, iOwnerPublicKey, iSignature) ==
    IF Len(iNewNodeIds) # Len(iType)
    THEN [store |-> s, result |-> "ArityMismatch", trace |-> <<>>]
    ELSE IF Len(iNewNodeIds) # Len(iData)
    THEN [store |-> s, result |-> "ArityMismatch", trace |-> <<>>]
    ELSE IF Len(iNewNodeIds) # Len(iOwnerPublicKey)
    THEN [store |-> s, result |-> "ArityMismatch", trace |-> <<>>]
    ELSE CreateReferencedNodesAndFinalizeCall(s, iNodeId, iNewNodeIds,
             TypedNodes(iType, iData), iOwnerPublicKey, iSignature)

\* CreateTypedNode
CreateTypedNodeCall(s, iNodeId, iType, iData, iOwnerPublicKey, iSignature) ==
    CreateNodeCall(s, iNodeId, TypedNode(iType, iData), iOwnerPublicKey, iSignature)

\* CreateMaterial of asset.go
CreateMaterialCall(s, iNodeId, iName, iUnit, iQuantity, iOwnerPublicKey, iSignature) ==
    CreateTypedNodeCall(s, iNodeId, eMaterial, Material(iName, iUnit, iQuantity),
                        iOwnerPublicKey, iSignature)

\* GetTypedNode: the Data of a node decoded by GetNode is what json.Unmarshal
\* puts into an interface{} (a map, a string, a number), never a TypedNode
\* value, so the type assertion at line 132 fails for every stored node.
GetTypedNode(s, iNodeId) ==
    IF ~Exists(s, iNodeId)
    THEN [result |-> "NotFound"]
    ELSE [result |-> "InvalidNodeData"]

\* GetMaterial
GetMaterial(s, iNodeId) ==
    LET r == GetTypedNode(s, iNodeId) IN
    IF r.result # "ok" THEN r
    ELSE IF r.typedNode.Type # eMaterial THEN [result |-> "IncorrectType"]
    ELSE [result |-> "NotAMaterial"]

\* SplitMaterial lines 229-232: the total of the split quantities.
RECURSIVE Total(_, _)
Total(iSplitQuantities, i) ==
    IF i > Len(iSplitQuantities) THEN 0
    ELSE iSplitQuantities[i] + Total(iSplitQuantities, i + 1)

\* SplitMaterial
SplitMaterialCall(s, iNodeId, iSplitQuantities, iNewNodeIds, iNewNodeOwnerPublicKeys, iSignature) ==
    IF Len(iSplitQuantities) # Len(iNewNodeIds)
    THEN [store |-> s, result |-> "ArityMismatch"]
    ELSE IF Len(iSplitQuantities) # Len(iNewNodeOwnerPublicKeys)
    THEN [store |-> s, result |-> "ArityMismatch"]
    ELSE LET parentMaterial == GetMaterial(s, iNodeId) IN
         IF parentMaterial.result # "ok"
         THEN [store |-> s, result |-> parentMaterial.result]
         ELSE IF Total(iSplitQuantities, 1) # parentMaterial.material.Quantity
         THEN [store |-> s, result |-> "IncorrectQuantities"]
         ELSE IF Len(iSplitQuantities) = 0
         THEN [store |-> s, result |-> "EmptySplit"]
         ELSE CreateReferencedTypedNodesAndFinalizeCall(s, iNodeId, iNewNodeIds,
                  [i \in 1..Len(iSplitQuantities) |-> eMaterial],
                  [i \in 1..Len(iSplitQuantities) |->
                      Material(parentMaterial.material.Name,
                               parentMaterial.material.Unit, iSplitQuantities[i])],
                  iNewNodeOwnerPublicKeys, iSignature)

(***************************************************************************)
(* Calls of the Node-based engine.  A caller signs, with a private key of  *)
(* its choice, the document the call is about to verify.  A call that      *)
(* wrote nothing leaves the world state as it found it, so what can follow *)
(* it can follow the state before it: behaviours are explored up to the    *)
(* first call that neither writes nor adds to the transfer history, and up *)
(* to MaxCalls calls.                                                      *)
(***************************************************************************)
\* Sequences of new ids, payloads and owner keys offered to the branch call.
IdSeqs == {<<"n2">>, <<"n2", "n3">>, <<"n3", "n3">>, <<"n2", "n1">>}
DataSeqs == {<<"p1">>, <<"p1", "p2">>}
KeySeqs == {<<"K1">>, <<"K2", "K1">>}

\* A document standing for "nothing to sign": the call fails before it verifies.
NoDocument == [Id |-> ""]

MayCall ==
    /\ calls < MaxCalls
    /\ \/ last.op = "none"
       \/ last.wrote
       \/ (last.op = "TransferNodeOwnership" /\ last.result = "ok")

InitNode ==
    /\ engine = "node"
    /\ store = EmptyStore
    /\ last = [op |-> "none", result |-> "ok", wrote |-> FALSE]
    /\ everConsumed = {}
    /\ calls = 0
    /\ everTransferredTo = {}

\* The bookkeeping every graph call shares: the store it returns is installed.
Returns(r) ==
    /\ store' = r.store
    /\ calls' = calls + 1
    /\ UNCHANGED <<engine, everConsumed>>

\* The history of transfer targets: only a transfer that returned nil adds to it.
Transferred(result, iNewNodeId) ==
    everTransferredTo' = IF result = "ok"
                         THEN everTransferredTo \cup {iNewNodeId}
                         ELSE everTransferredTo

CreateNode ==
    \E id \in NodeIds, data \in NewPayloads, key \in OwnerKeyInputs, signer \in Signers :
        LET sig == Sign(signer, MarshalNode(NewNode(id, data, key)))
            r   == CreateNodeCall(store, id, data, key, sig)
        IN /\ engine = "node" /\ MayCall
           /\ Returns(r)
           /\ UNCHANGED everTransferredTo
           /\ last' = [op |-> "CreateNode", result |-> r.result,
                       wrote |-> r.store # store, id |-> id, data |-> data,
                       ownerPublicKey |-> key, signer |-> signer]

FinalizeNode ==
    \E id \in NodeIds, signer \in Signers :
        LET doc == IF Exists(store, id)
                   THEN MarshalNode(FinalizedNode(store, id)) ELSE NoDocument
            r   == FinalizeNodeCall(store, id, Sign(signer, doc))
        IN /\ engine = "node" /\ MayCall
           /\ Returns(r)
           /\ UNCHANGED everTransferredTo
           /\ last' = [op |-> "FinalizeNode", result |-> r.result,
                       wrote |-> r.store # store, id |-> id, signer |-> signer]

UpdateNode ==
    \E id \in NodeIds, data \in Payloads, fin \in BOOLEAN, key \in ValidKeys,
       signer \in Signers :
        LET iNode == [Id                    |-> id,
                      IsFinalized           |-> fin,
                      Data                  |-> data,
                      NextNodeHashedIds     |->
                          IF Exists(store, id) THEN store[id].NextNodeHashedIds ELSE {},
                      PreviousNodeHashedIds |->
                          IF Exists(store, id) THEN store[id].PreviousNodeHashedIds ELSE {},
                      OwnerPublicKey        |-> key]
            r     == UpdateNodeCall(store, iNode, Sign(signer, MarshalNode(iNode)))
        IN /\ engine = "node" /\ MayCall
           /\ Returns(r)
           /\ UNCHANGED everTransferredTo
           /\ last' = [op |-> "UpdateNode", result |-> r.result,
                       wrote |-> r.store # store, id |-> id, node |-> iNode,
                       signer |-> signer]

CreateEdge ==
    \E id \in NodeIds, nextId \in NodeIds, signer \in Signers, nextSigner \in Signers :
        LET both == Exists(store, id) /\ Exists(store, nextId)
            doc1 == IF both THEN MarshalNode(EdgeThisNode(store, id, nextId))
                    ELSE NoDocument
            doc2 == IF both THEN MarshalNode(EdgeNextNode(store, id, nextId))
                    ELSE NoDocument
            r    == CreateEdgeCall(store, id, nextId, Sign(signer, doc1),
                                   Sign(nextSigner, doc2))
        IN /\ engine = "node" /\ MayCall
           /\ Returns(r)
           /\ UNCHANGED everTransferredTo
           /\ last' = [op |-> "CreateEdge", result |-> r.result,
                       wrote |-> r.store # store, trace |-> r.trace, id |-> id, nextId |-> nextId,
                       signer |-> signer, nextSigner |-> nextSigner]

CreateReferencedNodesAndFinalize ==
    \E id \in NodeIds, newIds \in IdSeqs, data \in DataSeqs, keys \in KeySeqs,
       signer \in Signers :
        LET doc == IF Exists(store, id)
                   THEN MarshalNode(BranchParent(store, id, newIds)) ELSE NoDocument
            r   == CreateReferencedNodesAndFinalizeCall(store, id, newIds, data, keys,
                                                        Sign(signer, doc))
        IN /\ engine = "node" /\ MayCall
           /\ Returns(r)
           /\ UNCHANGED everTransferredTo
           /\ last' = [op |-> "CreateReferencedNodesAndFinalize", result |-> r.result,
                       wrote |-> r.store # store, trace |-> r.trace, id |-> id, newIds |-> newIds,
                       data |-> data, ownerPublicKeys |-> keys, signer |-> signer]

TransferNodeOwnership ==
    \E id \in NodeIds, newId \in NodeIds, key \in OwnerKeyInputs, signer \in Signers :
        LET doc == IF Exists(store, id)
                   THEN MarshalNode(TransferNode(store, id, newId, key)) ELSE NoDocument
            sig == Sign(signer, doc)
            r   == TransferNodeOwnershipCall(store, id, newId, key, sig, sig)
        IN /\ engine = "node" /\ MayCall
           /\ Returns(r)
           /\ Transferred(r.result, newId)
           /\ last' = [op |-> "TransferNodeOwnership", result |-> r.result,
                       wrote |-> r.store # store, trace |-> r.trace, id |-> id, newId |-> newId,
                       newOwnerPublicKey |-> key, signer |-> signer,
                       newSigner |-> signer,
                       targetUsedBefore |-> newId \in everTransferredTo,
                       oldOwnerPublicKey |->
                           IF Exists(store, id) THEN store[id].OwnerPublicKey ELSE ""]

\* Sequences offered to the typed wrappers.
TypedParentIds == {"n1", "n2"}
TypedIdSeqs == {<<"n2">>, <<"n2", "n3">>}
TypeSeqs == {<<eMaterial>>, <<eMaterial, eData>>}
QuantitySeqs == {<<1>>, <<1, 2>>}

\* Quantities of the materials created.
MaterialQuantity == 3

CreateMaterial ==
    \E id \in TypedParentIds, key \in ValidKeys, signer \in Signers :
        LET data == TypedNode(eMaterial, Material("steel", "kg", MaterialQuantity))
            sig  == Sign(signer, MarshalNode(NewNode(id, data, key)))
            r    == CreateMaterialCall(store, id, "steel", "kg", MaterialQuantity, key, sig)
        IN /\ engine = "node" /\ MayCall
           /\ Returns(r)
           /\ UNCHANGED everTransferredTo
           /\ last' = [op |-> "CreateMaterial", result |-> r.result,
                       wrote |-> r.store # store, id |-> id,
                       quantity |-> MaterialQuantity, ownerPublicKey |-> key,
                       signer |-> signer]

CreateReferencedTypedNodesAndFinalize ==
    \E id \in TypedParentIds, newIds \in TypedIdSeqs, types \in TypeSeqs, data \in DataSeqs,
       keys \in KeySeqs, signer \in Signers :
        LET doc == IF Exists(store, id)
                   THEN MarshalNode(BranchParent(store, id, newIds)) ELSE NoDocument
            r   == CreateReferencedTypedNodesAndFinalizeCall(store, id, newIds, types,
                       data, keys, Sign(signer, doc))
        IN /\ engine = "node" /\ MayCall
           /\ Returns(r)
           /\ UNCHANGED everTransferredTo
           /\ last' = [op |-> "CreateReferencedTypedNodesAndFinalize",
                       result |-> r.result, wrote |-> r.store # store,
                       trace |-> r.trace, id |-> id,
                       newIds |-> newIds, types |-> types, data |-> data,
                       ownerPublicKeys |-> keys, signer |-> signer]

SplitMaterial ==
    \E id \in TypedParentIds, quantities \in QuantitySeqs, newIds \in TypedIdSeqs,
       keys \in KeySeqs, signer \in Signers :
        LET doc == IF Exists(store, id)
                   THEN MarshalNode(BranchParent(store, id, newIds)) ELSE NoDocument
            r   == SplitMaterialCall(store, id, quantities, newIds, keys,
                                     Sign(signer, doc))
        IN /\ engine = "node" /\ MayCall
           /\ Returns(r)
           /\ UNCHANGED everTransferredTo
           /\ last' = [op |-> "SplitMaterial", result |-> r.result,
                       wrote |-> r.store # store, id |-> id, newIds |-> newIds,
                       quantities |-> quantities, ownerPublicKeys |-> keys,
                       signer |-> signer]

NextNode ==
    \/ CreateNode
    \/ FinalizeNode
    \/ UpdateNode
    \/ CreateEdge
    \/ CreateReferencedNodesAndFinalize
    \/ TransferNodeOwnership

SpecNode == InitNode /\ [][NextNode]_vars

\* The asset chaincode: the typed wrappers over the engine they call.
NextTyped ==
    \/ NextNode
    \/ CreateReferencedTypedNodesAndFinalize
    \/ SplitMaterial

SpecTyped == InitNode /\ [][NextTyped]_vars

\* The material contract of asset.go on its own.
NextAssetMaterial == CreateMaterial \/ SplitMaterial

SpecAssetMaterial == InitNode /\ [][NextAssetMaterial]_vars

(***************************************************************************)
(* NodeHeader-based graph engine: unnamed/part_001.  A node is a NodeHeader *)
(* and the implementing type's own fields (Data).                          *)
(***************************************************************************)
\* Caller-supplied creation and transfer times.
CreatedTimes == {1}
TransferTimes == {2}

\* The empty string in a Signature field.
EmptySignature == [signer |-> ""]

\* encoding/json writes the Signature string coerced to valid UTF-8: raw
\* signature bytes do not survive; the empty and the coerced string do.
JsonCoerceSignature(sig) ==
    IF sig = EmptySignature \/ "coerced" \in DOMAIN sig THEN sig
    ELSE [coerced |-> sig]

\* MakeNodeHeader and the implementing struct's payload.
MakeNode(iId, iIsFinalized, iPreviousNodeHashedIds, iNextNodeHashedIds, iOwnerPublicKey, iCreatedTime, iSignature, iData) ==
    [Id                    |-> iId,
     IsFinalized           |-> iIsFinalized,
     PreviousNodeHashedIds |-> iPreviousNodeHashedIds,
     NextNodeHashedIds     |-> iNextNodeHashedIds,
     OwnerPublicKey        |-> iOwnerPublicKey,
     CreatedTime           |-> iCreatedTime,
     Signature             |-> iSignature,
     Data                  |-> iData]

\* json.Marshal(iNode)
MarshalHeaderNode(n) ==
    [n EXCEPT
        !.PreviousNodeHashedIds = {JsonCoerce(e) : e \in @},
        !.NextNodeHashedIds     = {JsonCoerce(e) : e \in @},
        !.Signature             = JsonCoerceSignature(@)]

\* Verify lines 69-78: the document that is hashed, the node serialized with
\* its Signature field blanked.
SignedDocument(n) == MarshalHeaderNode([n EXCEPT !.Signature = EmptySignature])

\* parsePublicKey: pem.Decode returns a nil block for a string that is no PEM
\* block, and block.Bytes then panics.
ParsePublicKeyPanics(iPublicKey) == iPublicKey \notin ValidKeys

\* Verify: against the node's own OwnerPublicKey.
HeaderVerify(iSignature, n) ==
    IF ParsePublicKeyPanics(n.OwnerPublicKey) THEN "Panic"
    ELSE IF RsaVerify(n.OwnerPublicKey, SignedDocument(n), iSignature) THEN "ok"
    ELSE "VerificationFailure"

\* GetNode of a present key into an empty placeholder.
HeaderGetNode(s, iNodeId) == s[iNodeId]

\* DoesNodeExists
HeaderDoesNodeExists_Never(s, iNodeId) == FALSE
HeaderDoesNodeExists(s, iNodeId) == Exists(s, iNodeId)

\* CreateNode
HeaderCreateNodeCall(s, iNode) ==
    IF HeaderDoesNodeExists(s, iNode.Id)
    THEN [store |-> s, result |-> "AlreadyExists"]
    ELSE LET v == HeaderVerify(iNode.Signature, iNode)
         IN IF v # "ok"
            THEN [store |-> s, result |-> v]
            ELSE [store |-> PutState(s, iNode.Id, MarshalHeaderNode(iNode)),
                  result |-> "ok"]

\* FinalizeNode lines 132-140: the loaded node with IsFinalized set; the
\* loaded IsFinalized is not tested and the Signature field is not replaced.
HeaderFinalizedNode_Toggled(s, iNodeId) ==
    [HeaderGetNode(s, iNodeId) EXCEPT !.IsFinalized = ~@]
HeaderFinalizedNode(s, iNodeId) ==
    [HeaderGetNode(s, iNodeId) EXCEPT !.IsFinalized = TRUE]

\* FinalizeNode
HeaderFinalizeNodeCall(s, iNodeId, iSignature) ==
    IF ~Exists(s, iNodeId)
    THEN [store |-> s, result |-> "NotFound"]
    ELSE LET node == HeaderFinalizedNode(s, iNodeId)
             v    == HeaderVerify(iSignature, node)
         IN IF v # "ok"
            THEN [store |-> s, result |-> v]
            ELSE [store |-> PutState(s, iNodeId, MarshalHeaderNode(node)),
                  result |-> "ok"]

\* CreateEdge lines 184-186: GetHeader returns a copy whose maps are the
\* node's own maps, so the entries land in the two loaded nodes.
HeaderEdgeThisNode(s, iNodeId, iNextNodeId) ==
    [HeaderGetNode(s, iNodeId) EXCEPT
        !.NextNodeHashedIds = @ \cup {HasherSum(iNextNodeId)}]
HeaderEdgeNextNode(s, iNodeId, iNextNodeId) ==
    [HeaderGetNode(s, iNextNodeId) EXCEPT
        !.PreviousNodeHashedIds = @ \cup {HasherSum(iNodeId)}]

\* CreateEdge lines 172 and 180: the finalized tests.
EdgeEndpointFinalized(n) == n.IsFinalized

\* CreateEdge
HeaderCreateEdgeCall(s, iNodeId, iNextNodeId, iNewSignature, iNextNodeNewSignature) ==
    LET g1 == <<GetStateEvent(s, iNodeId)>>
        g2 == g1 \o <<GetStateEvent(s, iNextNodeId)>>
    IN
    IF ~Exists(s, iNodeId)
    THEN [store |-> s, result |-> "NotFound", trace |-> g1]
    ELSE IF EdgeEndpointFinalized(HeaderGetNode(s, iNodeId))
    THEN [store |-> s, result |-> "AlreadyFinalized", trace |-> g1]
    ELSE IF ~Exists(s, iNextNodeId)
    THEN [store |-> s, result |-> "NotFound", trace |-> g2]
    ELSE IF EdgeEndpointFinalized(HeaderGetNode(s, iNextNodeId))
    THEN [store |-> s, result |-> "AlreadyFinalized", trace |-> g2]
    ELSE LET iNode     == HeaderEdgeThisNode(s, iNodeId, iNextNodeId)
             iNextNode == HeaderEdgeNextNode(s, iNodeId, iNextNodeId)
             v1        == HeaderVerify(iNewSignature, iNode)
             v2        == HeaderVerify(iNextNodeNewSignature, iNextNode)
             e1        == g2 \o <<VerifyEvent(iNode, v1)>>
             e2        == e1 \o <<VerifyEvent(iNextNode, v2)>>
             s1        == PutState(s, iNodeId, MarshalHeaderNode(iNode))
         IN IF v1 # "ok" THEN [store |-> s, result |-> v1, trace |-> e1]
            ELSE IF v2 # "ok" THEN [store |-> s, result |-> v2, trace |-> e2]
            ELSE [store  |-> PutState(s1, iNextNodeId, MarshalHeaderNode(iNextNode)),
                  result |-> "ok",
                  trace  |-> e2 \o <<PutStateEvent(s, iNodeId),
                                     PutStateEvent(s1, iNextNodeId)>>]

\* CreateChildrenNodesAndFinalize lines 237-247: the digests are added to the
\* loaded node's own map; IsFinalized is set on the local copy of the header
\* only, which is never stored back into the node.
ChildrenParent(s, iNodeId, iChildren) ==
    [HeaderGetNode(s, iNodeId) EXCEPT
        !.NextNodeHashedIds =
            @ \cup {Sum512(iChildren[i].Id) : i \in 1..Len(iChildren)}]

\* CreateChildrenNodesAndFinalize line 266: the child with the parent's
\* digest added to its previous links.
ChildWithParent(child, parentId) ==
    [child EXCEPT !.PreviousNodeHashedIds = @ \cup {Sum512(parentId)}]

\* CreateChildrenNodesAndFinalize lines 256-282: each child is tested for
\* existence, verified against its own Signature field, and written.
RECURSIVE ChildrenLoop(_, _, _, _, _)
ChildrenLoop(s, parentId, iChildren, i, trace) ==
    IF i > Len(iChildren)
    THEN [store |-> s, result |-> "ok", trace |-> trace]
    ELSE IF HeaderDoesNodeExists(s, iChildren[i].Id)
    THEN [store |-> s, result |-> "AlreadyExists",
          trace |-> trace \o <<GetStateEvent(s, iChildren[i].Id)>>]
    ELSE LET child == ChildWithParent(iChildren[i], parentId)
             v     == HeaderVerify(child.Signature, child)
             e     == trace \o <<GetStateEvent(s, child.Id), VerifyEvent(child, v)>>
         IN IF v # "ok"
            THEN [store |-> s, result |-> v, trace |-> e]
            ELSE ChildrenLoop(PutState(s, child.Id, MarshalHeaderNode(child)),
                              parentId, iChildren, i + 1,
                              e \o <<PutStateEvent(s, child.Id)>>)

\* CreateChildrenNodesAndFinalize: the parent is written last.
CreateChildrenNodesAndFinalizeCall(s, iNodeId, iNewSignature, iChildren) ==
    LET g == <<GetStateEvent(s, iNodeId)>> IN
    IF ~Exists(s, iNodeId)
    THEN [store |-> s, result |-> "NotFound", trace |-> g]
    ELSE IF HeaderGetNode(s, iNodeId).IsFinalized
    THEN [store |-> s, result |-> "AlreadyFinalized", trace |-> g]
    ELSE LET iNode == ChildrenParent(s, iNodeId, iChildren)
             v     == HeaderVerify(iNewSignature, iNode)
             e     == g \o <<VerifyEvent(iNode, v)>>
         IN IF v # "ok"
            THEN [store |-> s, result |-> v, trace |-> e]
            ELSE LET r == ChildrenLoop(s, iNode.Id, iChildren, 1, e)
                 IN IF r.result # "ok"
                    THEN r
                    ELSE [store  |-> PutState(r.store, iNode.Id,
                                              MarshalHeaderNode(iNode)),
                          result |-> "ok",
                          trace  |-> r.trace \o <<PutStateEvent(r.store, iNode.Id)>>]

\* TransferNodeOwnership lines 377-392: newNode and oldNode are both iNode,
\* one object, so the new id, owner and time, the finalization and both link
\* entries all land in it.
TransferredNode(iNode, iNodeId, iNewNodeId, iTransferTime, iNewOwnerPublicKey) ==
    [iNode EXCEPT
        !.Id                    = iNewNodeId,
        !.OwnerPublicKey        = iNewOwnerPublicKey,
        !.CreatedTime           = iTransferTime,
        !.NextNodeHashedIds     = @ \cup {HasherSum(iNewNodeId)},
        !.IsFinalized           = TRUE,
        !.PreviousNodeHashedIds = @ \cup {HasherSum(iNodeId)}]

\* TransferNodeOwnership: the one object is verified twice and written under
\* both keys.  The loaded node's IsFinalized is not tested.
HeaderTransferNodeOwnershipCall(s, iNodeId, iNode, iNewNodeId, iTransferTime, iNewOwnerPublicKey, iNewSignature, iNewNodeSignature) ==
    LET g1 == <<GetStateEvent(s, iNodeId)>>
        g2 == g1 \o <<GetStateEvent(s, iNewNodeId)>>
    IN
    IF ~HeaderDoesNodeExists(s, iNodeId)
    THEN [store |-> s, result |-> "NotFound", trace |-> g1]
    ELSE IF HeaderDoesNodeExists(s, iNewNodeId)
    THEN [store |-> s, result |-> "AlreadyExists", trace |-> g2]
    ELSE LET node == TransferredNode(iNode, iNodeId, iNewNodeId, iTransferTime,
                                     iNewOwnerPublicKey)
             v1   == HeaderVerify(iNewSignature, node)
             v2   == HeaderVerify(iNewNodeSignature, node)
             e1   == g2 \o <<VerifyEvent(node, v1)>>
             e2   == e1 \o <<VerifyEvent(node, v2)>>
             s1   == PutState(s, iNodeId, MarshalHeaderNode(node))
         IN IF v1 # "ok" THEN [store |-> s, result |-> v1, trace |-> e1]
            ELSE IF v2 # "ok" THEN [store |-> s, result |-> v2, trace |-> e2]
            ELSE [store  |-> PutState(s1, iNewNodeId, MarshalHeaderNode(node)),
                  result |-> "ok",
                  trace  |-> e2 \o <<PutStateEvent(s, iNodeId),
                                     PutStateEvent(s1, iNewNodeId)>>]

(***************************************************************************)
(* Calls of the NodeHeader-based engine.  Created nodes and children have  *)
(* the shape MaterialContract.CreateMaterial builds (unfinalized, empty    *)
(* link maps); the node passed to TransferNodeOwnership is the stored one, *)
(* as MaterialContract.TransferMaterial loads it.                          *)
(***************************************************************************)
ChildKeySeqs == {<<"K2", "K1">>}
ChildSignerSeqs == {<<"K2", "K1">>, <<"K2", "K2">>}
ChildData == <<"p1", "p1">>

\* A fresh node signed by signer: the signature is over the document Verify
\* will hash, the node with the extra previous links it has by then.
SignedNewNode(id, key, time, data, extraPrevious, signer) ==
    LET n == MakeNode(id, FALSE, {}, {}, key, time, EmptySignature, data)
        d == SignedDocument([n EXCEPT !.PreviousNodeHashedIds = extraPrevious])
    IN [n EXCEPT !.Signature = Sign(signer, d)]

InitHeader ==
    /\ engine = "header"
    /\ store = EmptyStore
    /\ last = [op |-> "none", result |-> "ok", wrote |-> FALSE]
    /\ everConsumed = {}
    /\ calls = 0
    /\ everTransferredTo = {}

HeaderCreateNode ==
    \E id \in NodeIds, data \in NewPayloads, key \in OwnerKeyInputs,
       time \in CreatedTimes,
       signer \in Signers :
        LET iNode == SignedNewNode(id, key, time, data, {}, signer)
            r     == HeaderCreateNodeCall(store, iNode)
        IN /\ engine = "header" /\ MayCall
           /\ Returns(r)
           /\ UNCHANGED everTransferredTo
           /\ last' = [op |-> "CreateNode", result |-> r.result,
                       wrote |-> r.store # store, id |-> id, node |-> iNode,
                       data |-> data, ownerPublicKey |-> key, signer |-> signer]

HeaderFinalizeNode ==
    \E id \in NodeIds, signer \in Signers :
        LET doc == IF Exists(store, id)
                   THEN SignedDocument(HeaderFinalizedNode(store, id)) ELSE NoDocument
            r   == HeaderFinalizeNodeCall(store, id, Sign(signer, doc))
        IN /\ engine = "header" /\ MayCall
           /\ Returns(r)
           /\ UNCHANGED everTransferredTo
           /\ last' = [op |-> "FinalizeNode", result |-> r.result,
                       wrote |-> r.store # store, id |-> id, signer |-> signer]

HeaderCreateEdge ==
    \E id \in NodeIds, nextId \in NodeIds, signer \in Signers, nextSigner \in Signers :
        LET both == Exists(store, id) /\ Exists(store, nextId)
            doc1 == IF both THEN SignedDocument(HeaderEdgeThisNode(store, id, nextId))
                    ELSE NoDocument
            doc2 == IF both THEN SignedDocument(HeaderEdgeNextNode(store, id, nextId))
                    ELSE NoDocument
            r    == HeaderCreateEdgeCall(store, id, nextId, Sign(signer, doc1),
                                         Sign(nextSigner, doc2))
        IN /\ engine = "header" /\ MayCall
           /\ Returns(r)
           /\ UNCHANGED everTransferredTo
           /\ last' = [op |-> "CreateEdge", result |-> r.result,
                       wrote |-> r.store # store, trace |-> r.trace, id |-> id, nextId |-> nextId,
                       signer |-> signer, nextSigner |-> nextSigner]

CreateChildrenNodesAndFinalize ==
    \E id \in NodeIds, newIds \in IdSeqs, keys \in ChildKeySeqs,
       childSigners \in ChildSignerSeqs, time \in CreatedTimes, signer \in Signers :
        LET children == [i \in 1..Len(newIds) |->
                            SignedNewNode(newIds[i], keys[i], time, ChildData[i],
                                          {Sum512(id)}, childSigners[i])]
            doc == IF Exists(store, id)
                   THEN SignedDocument(ChildrenParent(store, id, children))
                   ELSE NoDocument
            r   == CreateChildrenNodesAndFinalizeCall(store, id, Sign(signer, doc),
                                                      children)
        IN /\ engine = "header" /\ MayCall
           /\ Returns(r)
           /\ UNCHANGED everTransferredTo
           /\ last' = [op |-> "CreateChildrenNodesAndFinalize", result |-> r.result,
                       wrote |-> r.store # store, trace |-> r.trace, id |-> id, children |-> children,
                       signer |-> signer]

HeaderTransferNodeOwnership ==
    \E id \in NodeIds, newId \in NodeIds, key \in OwnerKeyInputs,
       time \in TransferTimes,
       signer \in Signers, newSigner \in Signers :
        LET iNode == IF Exists(store, id) THEN HeaderGetNode(store, id)
                     ELSE MakeNode(id, FALSE, {}, {}, key, time, EmptySignature, "p1")
            doc   == SignedDocument(TransferredNode(iNode, id, newId, time, key))
            r     == HeaderTransferNodeOwnershipCall(store, id, iNode, newId, time, key,
                         Sign(signer, doc), Sign(newSigner, doc))
        IN /\ engine = "header" /\ MayCall
           /\ Returns(r)
           /\ Transferred(r.result, newId)
           /\ last' = [op |-> "TransferNodeOwnership", result |-> r.result,
                       wrote |-> r.store # store, trace |-> r.trace, id |-> id, newId |-> newId,
                       newOwnerPublicKey |-> key, transferTime |-> time,
                       signer |-> signer, newSigner |-> newSigner,
                       targetUsedBefore |-> newId \in everTransferredTo,
                       oldOwnerPublicKey |->
                           IF Exists(store, id) THEN store[id].OwnerPublicKey ELSE ""]

NextHeader ==
    \/ HeaderCreateNode
    \/ HeaderFinalizeNode
    \/ HeaderCreateEdge
    \/ CreateChildrenNodesAndFinalize
    \/ HeaderTransferNodeOwnership

SpecHeader == InitHeader /\ [][NextHeader]_vars

\* Both graph engines: each behaviour runs one of them.
SpecGraph == (InitNode \/ InitHeader) /\ [][NextNode \/ NextHeader]_vars

\* The token ledger and both graph engines: each behaviour runs one of them.
SpecLedgers ==
    (InitToken \/ InitNode \/ InitHeader) /\ [][NextToken \/ NextNode \/ NextHeader]_vars

(***************************************************************************)
(* MaterialContract over the NodeHeader-based engine: src/main.go.  A      *)
(* time.Time and the transaction timestamp are both a count of whole       *)
(* seconds since the epoch and a count of nanoseconds within the second.   *)
(***************************************************************************)
\* time.Time.Unix(): the whole seconds, the nanoseconds dropped.
Unix(iTime) == iTime.Seconds

\* decimal.NewFromString succeeds on a decimal numeral.
NewFromStringOk(iQuantity) == iQuantity \in {"10", "1.50"}

\* decimal.Decimal.String(): the numeral without trailing fractional zeros.
DecimalString(iQuantity) == IF iQuantity = "1.50" THEN "1.5" ELSE iQuantity

\* CreateMaterial lines 97-100 and TransferMaterial lines 179-182: the
\* absolute difference of the whole seconds.
TimeDiff(transactionTime, iTime) ==
    LET timeDiff == transactionTime.Seconds - Unix(iTime)
    IN IF timeDiff < 0 THEN -timeDiff ELSE timeDiff

\* MakeMaterial: the header and the material's own fields.
MakeMaterial(iName, iUnit, iQuantity, iHeader) ==
    [iHeader EXCEPT !.Data = [Name |-> iName, Unit |-> iUnit, Quantity |-> iQuantity]]

\* CreateMaterial lines 106-121: the node handed to CreateNode.
NewMaterial(iNodeId, iName, iUnit, iQuantity, iOwnerPublicKey, iCreatedTime, iSignature) ==
    MakeMaterial(iName, iUnit, DecimalString(iQuantity),
                 MakeNode(iNodeId, FALSE, {}, {}, iOwnerPublicKey, iCreatedTime,
                          iSignature, <<>>))

\* CreateMaterial of src/main.go
HeaderCreateMaterialCall(s, transactionTime, iNodeId, iName, iUnit, iQuantity, iOwnerPublicKey, iCreatedTime, iSignature) ==
    IF ~NewFromStringOk(iQuantity)
    THEN [store |-> s, result |-> "InvalidQuantity"]
    ELSE IF TimeDiff(transactionTime, iCreatedTime) > 3600
    THEN [store |-> s, result |-> "TimestampMismatch"]
    ELSE HeaderCreateNodeCall(s, NewMaterial(iNodeId, iName, iUnit, iQuantity,
                                             iOwnerPublicKey, iCreatedTime, iSignature))

\* TransferMaterial of src/main.go: the stored node is loaded and passed on.
HeaderTransferMaterialCall(s, transactionTime, iNodeId, iNewNodeId, iNewOwnerPublicKey, iSignature, iNewNodeSignature, iTransferTime) ==
    IF ~Exists(s, iNodeId)
    THEN [store |-> s, result |-> "NotFound"]
    ELSE IF TimeDiff(transactionTime, iTransferTime) > 3600
    THEN [store |-> s, result |-> "TimestampMismatch"]
    ELSE HeaderTransferNodeOwnershipCall(s, iNodeId, HeaderGetNode(s, iNodeId),
             iNewNodeId, iTransferTime, iNewOwnerPublicKey, iSignature,
             iNewNodeSignature)

\* The transaction timestamp and the times a caller supplies: around one
\* hour before and one hour after the transaction.
TransactionTimes == {[Seconds |-> 7200, Nanos |-> 0]}
MaterialTimes ==
    {[Seconds |-> 3599, Nanos |-> 0], [Seconds |-> 3600, Nanos |-> 0],
     [Seconds |-> 10800, Nanos |-> 0], [Seconds |-> 10800, Nanos |-> 500000000],
     [Seconds |-> 10801, Nanos |-> 0]}
MaterialIds == {"n1", "n2"}
MaterialQuantities == {"1.50", "x"}

HeaderCreateMaterial ==
    \E transactionTime \in TransactionTimes, id \in MaterialIds,
       quantity \in MaterialQuantities, key \in ValidKeys,
       createdTime \in MaterialTimes, signer \in Signers :
        LET doc == SignedDocument(NewMaterial(id, "steel", "kg", quantity, key,
                                              createdTime, EmptySignature))
            r   == HeaderCreateMaterialCall(store, transactionTime, id, "steel", "kg",
                       quantity, key, createdTime, Sign(signer, doc))
        IN /\ engine = "header" /\ MayCall
           /\ Returns(r)
           /\ UNCHANGED everTransferredTo
           /\ last' = [op |-> "CreateMaterial", result |-> r.result,
                       wrote |-> r.store # store, id |-> id, quantity |-> quantity,
                       ownerPublicKey |-> key, time |-> createdTime,
                       transactionTime |-> transactionTime, signer |-> signer]

HeaderTransferMaterial ==
    \E transactionTime \in TransactionTimes, id \in MaterialIds,
       newId \in MaterialIds, key \in ValidKeys, transferTime \in MaterialTimes,
       signer \in Signers :
        LET doc == IF Exists(store, id)
                   THEN SignedDocument(TransferredNode(HeaderGetNode(store, id), id,
                                                       newId, transferTime, key))
                   ELSE NoDocument
            r   == HeaderTransferMaterialCall(store, transactionTime, id, newId, key,
                       Sign(signer, doc), Sign(signer, doc), transferTime)
        IN /\ engine = "header" /\ MayCall
           /\ Returns(r)
           /\ Transferred(r.result, newId)
           /\ last' = [op |-> "TransferMaterial", result |-> r.result,
                       wrote |-> r.store # store, id |-> id, newId |-> newId,
                       newOwnerPublicKey |-> key, time |-> transferTime,
                       transactionTime |-> transactionTime, signer |-> signer]

NextMaterial == HeaderCreateMaterial \/ HeaderTransferMaterial

SpecMaterial == InitHeader /\ [][NextMaterial]_vars

(***************************************************************************)
(* Claims about the token ledger.                                          *)
(***************************************************************************)
\* C4: after a ConsumeToken(x, y) call has returned success, every later
\* ConsumeToken(x, z) call returns AlreadyConsumed, for every z.
C4_SecondConsumptionRejected ==
    (engine = "token" /\ last.op = "ConsumeToken" /\ last.consumedBefore)
        => last.result = "AlreadyConsumed"

\* C5: a stored token's ConsumingTokenId is empty at creation, and once it is
\* non-empty no call changes it or removes the token.
C5_ConsumingTokenIdSetOnce ==
    [][engine = "token" =>
        /\ \A k \in DOMAIN store :
              store[k].ConsumingTokenId # "" =>
                  /\ k \in DOMAIN store'
                  /\ store'[k].ConsumingTokenId = store[k].ConsumingTokenId
        /\ \A k \in (DOMAIN store') \ (DOMAIN store) :
              store'[k].ConsumingTokenId = ""]_vars

\* C5 witness: an already consumed token has just been rewritten, as the
\* consuming token of a later successful consumption.
C5_Witness ==
    /\ engine = "token"
    /\ last.op = "ConsumeToken" /\ last.result = "ok"
    /\ last.consumedTokenId # last.consumingTokenId
    /\ last.consumingTokenId \in DOMAIN store
    /\ store[last.consumingTokenId].ConsumingTokenId # ""
    /\ store[last.consumingTokenId].ConsumedTokenIds # <<>>
    /\ last.consumedTokenId \in DOMAIN store
    /\ store[last.consumedTokenId].ConsumingTokenId = last.consumingTokenId

\* C6: every token id occurs at most once in total across the
\* ConsumedTokenIds sequences of all stored tokens.
C6_ConsumedAtMostOnce ==
    engine = "token" =>
        LET Places == UNION {{<<k, i>> : i \in 1..Len(store[k].ConsumedTokenIds)} :
                                k \in DOMAIN store}
        IN \A x \in DOMAIN store :
               Cardinality({p \in Places : store[p[1]].ConsumedTokenIds[p[2]] = x}) <= 1

\* C7: a successful ConsumeToken(consumedId, consumingId) on two stored
\* tokens, the consumed one unconsumed and the endpoints non-empty, leaves
\* consumedId with ConsumingTokenId = consumingId and consumingId with its
\* previous ConsumedTokenIds followed by consumedId.
C7_ConsumeEffect ==
    [][(/\ engine = "token"
        /\ last'.op = "ConsumeToken" /\ last'.result = "ok"
        /\ last'.consumedTokenId \in DOMAIN store
        /\ last'.consumingTokenId \in DOMAIN store
        /\ store[last'.consumedTokenId].ConsumingTokenId = ""
        /\ store[last'.consumedTokenId].RequestToSendUrl # ""
        /\ store[last'.consumedTokenId].RequestToAcceptUrl # ""
        /\ store[last'.consumingTokenId].RequestToSendUrl # ""
        /\ store[last'.consumingTokenId].RequestToAcceptUrl # "")
       => /\ store'[last'.consumedTokenId].ConsumingTokenId = last'.consumingTokenId
          /\ store'[last'.consumingTokenId].ConsumedTokenIds =
                 Append(store[last'.consumingTokenId].ConsumedTokenIds,
                        last'.consumedTokenId)]_vars

\* The record C8 expects CreateToken to store: lowercase-hex SHA-512 id, empty
\* consumption fields, the supplied endpoints and owner key.
C8_Expected(call) ==
    [Id                 |-> "hex(sha512(" \o call.seed \o "))",
     ConsumingTokenId   |-> "",
     ConsumedTokenIds   |-> <<>>,
     RequestToAcceptUrl |-> call.requestToAcceptUrl,
     RequestToSendUrl   |-> call.requestToSendUrl,
     OwnerPublicKey     |-> call.ownerPublicKey]

\* C8: CreateToken on a store with no entry for hashId(seed) succeeds and adds
\* exactly one entry, keyed by hashId(seed), holding the fresh record; every
\* other entry is unchanged and GetToken on the id returns the record.
C8_CreateTokenInserts ==
    [][(/\ engine = "token"
        /\ last'.op = "CreateToken"
        /\ C8_Expected(last').Id \notin DOMAIN store)
       => /\ last'.result = "ok"
          /\ DOMAIN store' = (DOMAIN store) \cup {C8_Expected(last').Id}
          /\ store'[C8_Expected(last').Id] = C8_Expected(last')
          /\ \A k \in DOMAIN store : store'[k] = store[k]
          /\ GetToken(store', C8_Expected(last').Id) =
                 [result |-> "ok", token |-> C8_Expected(last')]]_vars

\* C8 witness: a token was just created beside another, already stored, token.
C8_Witness ==
    /\ engine = "token"
    /\ last.op = "CreateToken" /\ last.result = "ok"
    /\ Cardinality(DOMAIN store) = 2
    /\ last.requestToAcceptUrl # "" /\ last.requestToSendUrl = ""
    /\ store[C8_Expected(last).Id] = C8_Expected(last)

\* C9: CreateToken with a seed whose id is already stored returns
\* AlreadyExists and leaves the whole store as it was.
C9_DuplicateCreateRejected ==
    [][(/\ engine = "token"
        /\ last'.op = "CreateToken"
        /\ TokenIdOfSeed(last'.seed) \in DOMAIN store)
       => /\ last'.result = "AlreadyExists"
          /\ store' = store]_vars

\* C9 witness: a duplicate create with another owner key and other endpoints
\* was rejected for a token that has consumed and has been consumed.
C9_Witness ==
    /\ engine = "token"
    /\ last.op = "CreateToken" /\ last.result = "AlreadyExists"
    /\ LET tok == store[TokenIdOfSeed(last.seed)] IN
          /\ tok.OwnerPublicKey # last.ownerPublicKey
          /\ tok.RequestToSendUrl # last.requestToSendUrl
          /\ tok.ConsumingTokenId # ""
          /\ tok.ConsumedTokenIds # <<>>

(***************************************************************************)
(* Claims about the graph engines.                                         *)
(***************************************************************************)
\* C1: once the record stored under a node id has IsFinalized = TRUE, no
\* later engine operation changes any field of the record under that id.
C1_FinalizedImmutable ==
    [][(engine = "node" \/ engine = "header") =>
        (\A id \in DOMAIN store :
            store[id].IsFinalized =>
                (id \in DOMAIN store' /\ store'[id] = store[id]))]_vars

\* C2: when the node stored under X is finalized, FinalizeNode(X),
\* CreateEdge with X as either endpoint (the other endpoint stored), and
\* TransferNodeOwnership with X as the old node return AlreadyFinalized,
\* whatever the signatures.
C2_FinalizedRejects ==
    [][(engine = "node" \/ engine = "header") =>
       (LET Finalized(x) == x \in DOMAIN store /\ store[x].IsFinalized IN
        /\ (last'.op = "FinalizeNode" /\ Finalized(last'.id))
               => last'.result = "AlreadyFinalized"
        /\ (/\ last'.op = "CreateEdge"
            /\ last'.id \in DOMAIN store /\ last'.nextId \in DOMAIN store
            /\ (Finalized(last'.id) \/ Finalized(last'.nextId)))
               => last'.result = "AlreadyFinalized"
        /\ (last'.op = "TransferNodeOwnership" /\ Finalized(last'.id))
               => last'.result = "AlreadyFinalized")]_vars

\* C3: TransferNodeOwnership changes the store only if the old signature was
\* made with the key that owned the record under the old id before the call;
\* signatures made with the new owner's key alone do not make it succeed.
C3_TransferNeedsCurrentOwner ==
    [][(/\ engine \in {"node", "header"}
        /\ last'.op = "TransferNodeOwnership"
        /\ (store' # store \/ last'.result = "ok"))
       => last'.signer = last'.oldOwnerPublicKey]_vars

\* C10: CreateNode with an id already present in the store returns
\* AlreadyExists and leaves the whole store as it was, whatever payload,
\* owner key and signature are supplied.
C10_DuplicateNodeRejected ==
    [][(/\ engine \in {"node", "header"}
        /\ last'.op = "CreateNode"
        /\ last'.id \in DOMAIN store)
       => /\ last'.result = "AlreadyExists"
          /\ store' = store]_vars

\* C10 witness: a CreateNode under a stored id was rejected although it named
\* another owner key and carried a signature valid under that key, and the
\* stored node had been changed since its creation.
C10_Witness ==
    /\ engine \in {"node", "header"}
    /\ last.op = "CreateNode" /\ last.result = "AlreadyExists"
    /\ last.id \in DOMAIN store
    /\ store[last.id].OwnerPublicKey # last.ownerPublicKey
    /\ last.signer = last.ownerPublicKey
    /\ store[last.id].IsFinalized

C12_TransferCreatesFreshNode ==
    [][(/\ engine = "header"
        /\ last'.op = "TransferNodeOwnership" /\ last'.result = "ok")
       => /\ last'.newId \in DOMAIN store'
          /\ LET n == store'[last'.newId] IN
                /\ n.Id = last'.newId
                /\ n.Data = store[last'.id].Data
                /\ n.OwnerPublicKey = last'.newOwnerPublicKey
                /\ n.CreatedTime = last'.transferTime
                /\ Cardinality(n.PreviousNodeHashedIds) = 1
                /\ \A e \in n.PreviousNodeHashedIds : e.of = last'.id
                /\ n.NextNodeHashedIds = {}
                /\ ~n.IsFinalized]_vars

\* C13: after a successful TransferNodeOwnership(oldId, newId, ...) the record
\* stored under oldId is the record stored there before with one next link
\* derived from newId added and IsFinalized = TRUE; every other field is
\* unchanged.
C13_TransferKeepsOldNode ==
    [][(/\ (engine = "node" \/ engine = "header")
        /\ last'.op = "TransferNodeOwnership" /\ last'.result = "ok")
       => /\ last'.id \in DOMAIN store'
          /\ \E h \in {JsonCoerce(Sum512(last'.newId)),
                       JsonCoerce(HasherSum(last'.newId))} :
                store'[last'.id] =
                    [store[last'.id] EXCEPT !.NextNodeHashedIds = @ \cup {h},
                                            !.IsFinalized = TRUE]]_vars

\* C14: once a TransferNodeOwnership to newId has returned success, every
\* later TransferNodeOwnership to the same newId from a stored old node
\* returns AlreadyExists and writes nothing; TransferNodeOwnership from an
\* absent old id returns NotFound.
C14_TransferTargetUsedOnce ==
    ((engine = "node" \/ engine = "header") /\ last.op = "TransferNodeOwnership")
        => /\ (last.targetUsedBefore /\ last.oldOwnerPublicKey # "")
                  => (last.result = "AlreadyExists" /\ ~last.wrote)
           /\ last.oldOwnerPublicKey = ""
                  => (last.result = "NotFound" /\ ~last.wrote)

\* C15: after a successful CreateReferencedNodesAndFinalize (plain or typed)
\* the stored parent is finalized and its next links are its previous next
\* links plus the SHA-512 digest of every new id, and every new id holds an
\* unfinalized node with its payload and owner key, the parent's digest as
\* its only previous link and no next links.
C15_BranchEffect ==
    [][(/\ engine = "node"
        /\ last'.op \in {"CreateReferencedNodesAndFinalize",
                         "CreateReferencedTypedNodesAndFinalize"}
        /\ last'.result = "ok")
       => LET c == last'
              payloads == IF c.op = "CreateReferencedNodesAndFinalize" THEN c.data
                          ELSE [i \in 1..Len(c.data) |->
                                   "{Type:" \o c.types[i] \o ",Data:" \o c.data[i] \o "}"]
          IN /\ c.id \in DOMAIN store /\ ~store[c.id].IsFinalized
             /\ store'[c.id].IsFinalized
             /\ store'[c.id].NextNodeHashedIds =
                    store[c.id].NextNodeHashedIds \cup
                        {JsonCoerce(Sum512(c.newIds[i])) : i \in 1..Len(c.newIds)}
             /\ \A i \in 1..Len(c.newIds) :
                    /\ c.newIds[i] \in DOMAIN store'
                    /\ store'[c.newIds[i]] =
                           [Id                    |-> c.newIds[i],
                            IsFinalized           |-> FALSE,
                            Data                  |-> payloads[i],
                            NextNodeHashedIds     |-> {},
                            PreviousNodeHashedIds |-> {JsonCoerce(Sum512(c.id))},
                            OwnerPublicKey        |-> c.ownerPublicKeys[i]]]_vars

\* C15 witness: a parent that already had a link was branched into two
\* children with different owners.
C15_Witness ==
    /\ engine = "node"
    /\ last.op = "CreateReferencedNodesAndFinalize" /\ last.result = "ok"
    /\ Len(last.newIds) = 2
    /\ Cardinality(store[last.id].NextNodeHashedIds) = 2
    /\ store[last.id].PreviousNodeHashedIds # {}
    /\ store[last.newIds[2]].Data = "p2"
    /\ store[last.newIds[2]].OwnerPublicKey # store[last.newIds[1]].OwnerPublicKey

\* C16: in the NodeHeader-based engine, after a successful
\* CreateChildrenNodesAndFinalize the record stored under the parent id has
\* IsFinalized = TRUE.
C16_ChildrenFinalizeParent ==
    [][(/\ engine = "header"
        /\ last'.op = "CreateChildrenNodesAndFinalize" /\ last'.result = "ok")
       => (last'.id \in DOMAIN store' /\ store'[last'.id].IsFinalized)]_vars

\* C17: CreateReferencedNodesAndFinalize, its typed wrapper and SplitMaterial,
\* called with new ids, payloads and owner keys that do not all have the same
\* length, return ArityMismatch and leave the store as it was.
C17_ArityMismatchRejected ==
    [][(/\ engine = "node"
        /\ \/ /\ last'.op \in {"CreateReferencedNodesAndFinalize",
                               "CreateReferencedTypedNodesAndFinalize"}
              /\ \/ Len(last'.newIds) # Len(last'.data)
                 \/ Len(last'.data) # Len(last'.ownerPublicKeys)
           \/ /\ last'.op = "SplitMaterial"
              /\ \/ Len(last'.newIds) # Len(last'.quantities)
                 \/ Len(last'.quantities) # Len(last'.ownerPublicKeys))
       => (last'.result = "ArityMismatch" /\ store' = store)]_vars

\* C18: after a successful CreateEdge(idA, idB) on two stored unfinalized
\* nodes, distinct or not, the record under idA has gained a next link
\* derived from idB and the record under idB a previous link derived from
\* idA; no node is finalized and nothing else in the store changes.
C18_CreateEdgeEffect ==
    [][(/\ (engine = "node" \/ engine = "header")
        /\ last'.op = "CreateEdge" /\ last'.result = "ok"
        /\ last'.id \in DOMAIN store /\ ~store[last'.id].IsFinalized
        /\ last'.nextId \in DOMAIN store /\ ~store[last'.nextId].IsFinalized)
       => LET a == last'.id
              b == last'.nextId
          IN /\ DOMAIN store' = DOMAIN store
             /\ \E ha \in {JsonCoerce(Sum512(a)), JsonCoerce(HasherSum(a))},
                   hb \in {JsonCoerce(Sum512(b)), JsonCoerce(HasherSum(b))} :
                   \A k \in DOMAIN store :
                       store'[k] =
                           [store[k] EXCEPT
                               !.NextNodeHashedIds =
                                   IF k = a THEN @ \cup {hb} ELSE @,
                               !.PreviousNodeHashedIds =
                                   IF k = b THEN @ \cup {ha} ELSE @]]_vars

\* C19: in every reachable store state every entry of a node's previous or
\* next links is the SHA-512 digest of a node id, whichever operation added
\* it, and no entry holds a raw id.
C19_LinksAreDigests ==
    (engine = "node" \/ engine = "header") =>
        \A k \in DOMAIN store :
            \A e \in store[k].PreviousNodeHashedIds \cup store[k].NextNodeHashedIds :
                \E x \in NodeIds : e = JsonCoerce(Sum512(x))

\* C20: in the NodeHeader-based engine the Signature field of every stored
\* node is a valid signature, under the node's stored OwnerPublicKey, of the
\* stored record with its Signature field blanked (the signature is read
\* back from its stored encoding).
C20_StoredSignatureValid ==
    engine = "header" =>
        \A k \in DOMAIN store :
            LET sig == store[k].Signature
                raw == IF "coerced" \in DOMAIN sig THEN sig.coerced ELSE sig
            IN RsaVerify(store[k].OwnerPublicKey, SignedDocument(store[k]), raw)


(***************************************************************************)
(* Claims about the order of store accesses and verifications in a call.   *)
(***************************************************************************)
\* C21: in both engines the branch operation writes a child node only after
\* a signature for that child has been verified against the child's owner
\* public key: every write of a child key in a branch call is preceded, in
\* that call, by a successful verification of the node with that id.
C21_ChildWrittenAfterVerification ==
    ((engine = "node" \/ engine = "header")
     /\ last.op \in {"CreateReferencedNodesAndFinalize",
                     "CreateChildrenNodesAndFinalize"})
        => \A i \in 1..Len(last.trace) :
               (last.trace[i].op = "PutState" /\ last.trace[i].key # last.id)
                   => \E j \in 1..(i - 1) :
                          /\ last.trace[j].op = "Verify"
                          /\ last.trace[j].key = last.trace[i].key
                          /\ last.trace[j].found


\* C22: within a single call of CreateEdge, of the branch operation and of
\* TransferNodeOwnership, every store read (GetState) happens before the
\* first store write (PutState): no call reads after it has written.
C22_ReadsBeforeWrites ==
    ((engine = "node" \/ engine = "header")
     /\ last.op \in {"CreateEdge", "CreateReferencedNodesAndFinalize",
                     "CreateChildrenNodesAndFinalize", "TransferNodeOwnership"})
        => \A i \in 1..Len(last.trace) :
               last.trace[i].op = "PutState"
                   => \A j \in (i + 1)..Len(last.trace) :
                          last.trace[j].op # "GetState"


\* C23: in the branch operation of both engines the parent is written before
\* any child, and when child k fails because its id is already present the
\* call returns the error with the finalized parent and the children before
\* k written and kept, and no record written for child k or a later child.
C23_BranchPartialWrites ==
    [][((engine = "node" \/ engine = "header")
        /\ last'.op \in {"CreateReferencedNodesAndFinalize",
                         "CreateChildrenNodesAndFinalize"})
       => (LET c   == last'
               t   == c.trace
               ids == IF c.op = "CreateReferencedNodesAndFinalize" THEN c.newIds
                      ELSE [i \in 1..Len(c.children) |-> c.children[i].Id]
               Taken(k) == ids[k] \in DOMAIN store \cup {ids[j] : j \in 1..(k - 1)}
           IN /\ \A i \in 1..Len(t) :
                     (t[i].op = "PutState" /\ t[i].key # c.id)
                         => \E j \in 1..(i - 1) :
                                t[j].op = "PutState" /\ t[j].key = c.id
              /\ c.result = "AlreadyExists"
                     => (LET k == CHOOSE k \in 1..Len(ids) :
                                      Taken(k) /\ \A m \in 1..(k - 1) : ~Taken(m)
                         IN /\ store'[c.id].IsFinalized
                            /\ DOMAIN store' =
                                   DOMAIN store \cup {ids[j] : j \in 1..(k - 1)}
                            /\ \A j \in 1..(k - 1) :
                                   /\ ids[j] \notin DOMAIN store
                                   /\ store'[ids[j]].Id = ids[j]
                                   /\ ~store'[ids[j]].IsFinalized))]_vars


(***************************************************************************)
(* Claims about failing store accesses.                                    *)
(***************************************************************************)
\* C24: an operation returns an error whenever a store access it performs
\* fails; in particular a ConsumeToken call in which a PutState call failed
\* does not return success.
C24_PutFailureReported ==
    (engine = "token" /\ last.op = "ConsumeToken"
     /\ "failedPuts" \in DOMAIN last /\ last.failedPuts # {})
        => last.result # "ok"


(***************************************************************************)
(* Claims about the policy endpoints of ConsumeToken.                      *)
(***************************************************************************)
\* C25 as stated: ConsumeToken changes the store only when the accept and
\* the send endpoint of the consumed token and of the consuming token are
\* all non-empty; if any of the four is empty, and both tokens exist and
\* the consumed token is unconsumed, the call returns success and the store
\* is identical before and after.
C25_MutatesOnlyWithAllEndpoints ==
    [][(engine = "token" /\ last'.op = "ConsumeToken")
       => (LET a == last'.consumedTokenId
               b == last'.consumingTokenId
               ready == /\ a \in DOMAIN store /\ b \in DOMAIN store
                        /\ store[a].ConsumingTokenId = ""
               all   == /\ store[a].RequestToAcceptUrl # ""
                        /\ store[a].RequestToSendUrl # ""
                        /\ store[b].RequestToAcceptUrl # ""
                        /\ store[b].RequestToSendUrl # ""
           IN /\ store' # store => (ready /\ all)
              /\ (ready /\ ~all) => (last'.result = "ok" /\ store' = store))]_vars

\* C25 amended: ConsumeToken changes the store only when the consumed
\* token's send endpoint and the consuming token's accept endpoint are both
\* non-empty, whatever the other two endpoints hold; if one of these two is
\* empty, and both tokens exist and the consumed token is unconsumed, the
\* call returns success and the store is identical before and after.
C25_MutatesOnlyWithSendAndAcceptEndpoint ==
    [][(engine = "token" /\ last'.op = "ConsumeToken")
       => (LET a == last'.consumedTokenId
               b == last'.consumingTokenId
               ready == /\ a \in DOMAIN store /\ b \in DOMAIN store
                        /\ store[a].ConsumingTokenId = ""
               need  == /\ store[a].RequestToSendUrl # ""
                        /\ store[b].RequestToAcceptUrl # ""
           IN /\ store' # store => (ready /\ need)
              /\ (ready /\ need) => (last'.result = "ok" /\ store' # store)
              /\ (ready /\ ~need) => (last'.result = "ok" /\ store' = store))]_vars

\* C25 witness: a consumption was recorded although the consumed token has
\* no accept endpoint and the consuming token no send endpoint.
C25_Witness ==
    /\ engine = "token"
    /\ last.op = "ConsumeToken" /\ last.result = "ok"
    /\ last.consumedTokenId # last.consumingTokenId
    /\ store[last.consumedTokenId].ConsumingTokenId = last.consumingTokenId
    /\ store[last.consumingTokenId].ConsumedTokenIds = <<last.consumedTokenId>>
    /\ store[last.consumedTokenId].RequestToAcceptUrl = ""
    /\ store[last.consumingTokenId].RequestToSendUrl = ""


(***************************************************************************)
(* Claims about the link structure.                                        *)
(***************************************************************************)
\* C26: there are no dangling or one-sided edges after any sequence of
\* successful engine operations.  The empty store has none, and a successful
\* operation on a store that has none leaves none: every next-link entry of
\* a stored node n is the SHA-512 digest of the id of a stored node m whose
\* previous links hold the digest of n's id, and every previous-link entry
\* of n is the digest of the id of a stored node m whose next links hold
\* the digest of n's id.
C26_EdgesTwoSided ==
    [][LET TwoSided(s) ==
               \A k \in DOMAIN s :
                   /\ \A e \in s[k].NextNodeHashedIds :
                          \E j \in DOMAIN s :
                              /\ e = JsonCoerce(Sum512(s[j].Id))
                              /\ JsonCoerce(Sum512(s[k].Id))
                                     \in s[j].PreviousNodeHashedIds
                   /\ \A e \in s[k].PreviousNodeHashedIds :
                          \E j \in DOMAIN s :
                              /\ e = JsonCoerce(Sum512(s[j].Id))
                              /\ JsonCoerce(Sum512(s[k].Id))
                                     \in s[j].NextNodeHashedIds
       IN ((engine = "node" \/ engine = "header")
           /\ last'.result = "ok" /\ TwoSided(store))
              => TwoSided(store')]_vars


(***************************************************************************)
(* Claims about the material contracts.                                    *)
(***************************************************************************)
\* C27: CreateMaterial and TransferMaterial return an error and write
\* nothing whenever the caller-supplied time differs from the transaction
\* timestamp by more than 3600 seconds in either direction, and the time
\* check does not reject a difference of at most 3600 seconds.
C27_TimeSkewRejected ==
    [][(engine = "header" /\ last'.op \in {"CreateMaterial", "TransferMaterial"})
       => (LET tx == last'.transactionTime
               t  == last'.time
               d  == tx.Seconds - t.Seconds
               moreThanAnHour == \/ d > 3600
                                 \/ d < -3600
                                 \/ (d = 3600 /\ tx.Nanos > t.Nanos)
                                 \/ (d = -3600 /\ t.Nanos > tx.Nanos)
           IN /\ moreThanAnHour => (last'.result # "ok" /\ store' = store)
              /\ ~moreThanAnHour => last'.result # "TimestampMismatch")]_vars


C29_FinalizeNodeEffect ==
    [][((engine = "node" \/ engine = "header") /\ last'.op = "FinalizeNode")
       => (LET id == last'.id
           IN /\ id \notin DOMAIN store
                     => (last'.result = "NotFound" /\ store' = store)
              /\ (/\ id \in DOMAIN store
                  /\ ~store[id].IsFinalized
                  /\ last'.signer = store[id].OwnerPublicKey)
                     => /\ last'.result = "ok"
                        /\ store' = [store EXCEPT ![id].IsFinalized = TRUE])]_vars

\* C29 witness: a node that has a link was finalized by its owner.
C29_Witness ==
    /\ (engine = "node" \/ engine = "header")
    /\ last.op = "FinalizeNode" /\ last.result = "ok" /\ last.wrote
    /\ store[last.id].IsFinalized
    /\ store[last.id].OwnerPublicKey = last.signer
    /\ store[last.id].PreviousNodeHashedIds \cup store[last.id].NextNodeHashedIds # {}


\* C30: ids are never reused or deleted: the set of store keys only grows,
\* and every write that creates a token or a node (CreateToken, CreateNode,
\* each child of the branch operation, the new node of
\* TransferNodeOwnership) targets a key that is absent immediately before
\* that write.
C30_KeysOnlyGrowAndCreatesAreFresh ==
    [][/\ DOMAIN store \subseteq DOMAIN store'
       /\ (engine = "token" /\ last'.op = "CreateToken" /\ last'.result = "ok")
              => /\ TokenIdOfSeed(last'.seed) \notin DOMAIN store
                 /\ TokenIdOfSeed(last'.seed) \in DOMAIN store'
       /\ ((engine = "node" \/ engine = "header")
           /\ last'.op = "CreateNode" /\ last'.result = "ok")
              => /\ last'.id \notin DOMAIN store
                 /\ last'.id \in DOMAIN store'
       /\ ((engine = "node" \/ engine = "header")
           /\ last'.op \in {"CreateReferencedNodesAndFinalize",
                            "CreateChildrenNodesAndFinalize", "TransferNodeOwnership"})
              => \A i \in 1..Len(last'.trace) :
                     (last'.trace[i].op = "PutState" /\ last'.trace[i].key # last'.id)
                         => /\ ~last'.trace[i].found
                            /\ last'.trace[i].key \notin DOMAIN store
                            /\ last'.trace[i].key \in DOMAIN store']_vars

\* C30 witness: a NodeHeader-based transfer wrote its new node under a key
\* that held nothing, next to the keys stored before.
C30_Witness ==
    /\ engine = "header"
    /\ last.op = "TransferNodeOwnership" /\ last.result = "ok"
    /\ \E i \in 1..Len(last.trace) :
           /\ last.trace[i].op = "PutState"
           /\ last.trace[i].key = last.newId
           /\ ~last.trace[i].found
    /\ {last.id, last.newId} \subseteq DOMAIN store
    /\ Cardinality(DOMAIN store) = 3


\* C31: ConsumeToken(consumedId, consumingId) returns NotFound whenever
\* consumedId or consumingId is absent from the store, whatever the state of
\* the other token, and leaves the store unchanged.
C31_NotFoundWheneverAbsent ==
    [][(/\ engine = "token"
        /\ last'.op = "ConsumeToken"
        /\ (\/ last'.consumedTokenId \notin DOMAIN store
            \/ last'.consumingTokenId \notin DOMAIN store))
       => /\ last'.result = "NotFound"
          /\ store' = store]_vars

\* C31 (amended): ConsumeToken returns NotFound when consumedId is absent, and
\* when consumedId is stored and unconsumed while consumingId is absent; when
\* consumedId is stored and already consumed while consumingId is absent it
\* returns AlreadyConsumed.  The store is unchanged in all three cases.
C31_NotFoundUnlessAlreadyConsumed ==
    [][(/\ engine = "token"
        /\ last'.op = "ConsumeToken"
        /\ (\/ last'.consumedTokenId \notin DOMAIN store
            \/ last'.consumingTokenId \notin DOMAIN store))
       => /\ store' = store
          /\ last'.result =
                IF /\ last'.consumedTokenId \in DOMAIN store
                   /\ store[last'.consumedTokenId].ConsumingTokenId # ""
                THEN "AlreadyConsumed"
                ELSE "NotFound"]_vars

\* C31 witness: a consumed token is named as the one to consume while the
\* consuming id is absent, and the call returned AlreadyConsumed.
C31_Witness ==
    /\ engine = "token"
    /\ last.op = "ConsumeToken" /\ last.result = "AlreadyConsumed"
    /\ last.consumedTokenId \in DOMAIN store
    /\ store[last.consumedTokenId].ConsumingTokenId # ""
    /\ last.consumingTokenId \notin DOMAIN store


\* C32: FinalizeNode applied to a node that is already finalized either
\* returns an error or leaves the whole store, and so the record under that
\* id, as it was before the call; finalizing twice gives the state that
\* finalizing once gave.
C32_RefinalizeIdempotentOrRejected ==
    [][((engine = "node" \/ engine = "header")
        /\ last'.op = "FinalizeNode"
        /\ last'.id \in DOMAIN store
        /\ store[last'.id].IsFinalized)
       => (last'.result # "ok" \/ store' = store)]_vars

\* C32 witness: a FinalizeNode call on a stored, already finalized node of the
\* header engine has returned nil without changing the store.
C32_Witness ==
    /\ engine = "header"
    /\ last.op = "FinalizeNode" /\ last.result = "ok" /\ ~last.wrote
    /\ last.id \in DOMAIN store
    /\ store[last.id].IsFinalized
    /\ store[last.id].Signature # EmptySignature


\* C33: a token's ConsumedTokenIds is an append-only log in call order: a new
\* token starts with the empty log; a ConsumeToken call that changes the store
\* appends its consumedId at the end of the log of the token it names as
\* consumingId and leaves every other log as it was; no other call changes
\* any log.
C33_ConsumedTokenIdsIsAppendOnlyLog ==
    [][engine = "token" =>
        /\ \A k \in DOMAIN store :
              /\ k \in DOMAIN store'
              /\ store'[k].ConsumedTokenIds =
                    IF /\ last'.op = "ConsumeToken"
                       /\ store' # store
                       /\ last'.consumingTokenId = k
                    THEN Append(store[k].ConsumedTokenIds, last'.consumedTokenId)
                    ELSE store[k].ConsumedTokenIds
        /\ \A k \in (DOMAIN store') \ (DOMAIN store) :
              store'[k].ConsumedTokenIds = <<>>]_vars

\* C33 witness: a consumption has just been appended behind a different,
\* earlier entry of the consuming token's log.
C33_Witness ==
    /\ engine = "token"
    /\ last.op = "ConsumeToken" /\ last.result = "ok"
    /\ last.consumingTokenId \in DOMAIN store
    /\ LET log == store[last.consumingTokenId].ConsumedTokenIds IN
          /\ Len(log) >= 2
          /\ log[Len(log)] = last.consumedTokenId
          /\ log[1] # last.consumedTokenId


\* C34: with store writes that do not fail, every CreateNode, FinalizeNode,
\* UpdateNode, CreateEdge, TransferNodeOwnership, CreateToken or ConsumeToken
\* call that returns an error leaves the store exactly as it was.
C34_ErrorLeavesStoreUnchanged ==
    [][(/\ last'.op \in {"CreateNode", "FinalizeNode", "UpdateNode", "CreateEdge",
                         "TransferNodeOwnership", "CreateToken", "ConsumeToken"}
        /\ last'.result # "ok")
       => store' = store]_vars


\* C34 witness: a CreateEdge call between two stored nodes returned a
\* verification failure for the second node after the first node's signature
\* had verified, and wrote nothing.
C34_Witness ==
    /\ last.op = "CreateEdge" /\ last.result = "VerificationFailure"
    /\ ~last.wrote
    /\ Cardinality(DOMAIN store) >= 2
    /\ \E i \in 1..Len(last.trace) :
          last.trace[i].op = "Verify" /\ last.trace[i].found


\* C35: in every reachable state, for all stored tokens a and b (a = b
\* included), a.ConsumingTokenId = b.Id exactly when a.Id occurs in
\* b.ConsumedTokenIds.
C35_ConsumptionSidesAgree ==
    engine = "token" =>
        \A a \in DOMAIN store, b \in DOMAIN store :
            (store[a].ConsumingTokenId = store[b].Id)
                <=> (\E i \in 1..Len(store[b].ConsumedTokenIds) :
                        store[b].ConsumedTokenIds[i] = store[a].Id)


\* C36: in every reachable store, the record stored under key k has its Id
\* field equal to k, for nodes and for tokens.
C36_KeyIsRecordId ==
    \A k \in DOMAIN store : store[k].Id = k



=============================================================================
